---- MODULE Spec2Model ----
(***************************************************************************)
(* Hold-timing engine of the Jump King frame trainer                       *)
(* (src-tauri/src/main.rs): the shared HoldState, the 60 FPS frame loop,   *)
(* the keyboard and gamepad listeners, the HUD commands and the audio      *)
(* channel.                                                                *)
(*                                                                         *)
(* Time is counted in ticks of 1/TicksPerFrame of a frame (a frame is      *)
(* FRAME_MS = 1000/60 ms).  Only differences of Instants are ever read     *)
(* (start.elapsed()), so the clock is re-based to 0 whenever no Instant is *)
(* stored and it is left standing while the state is idle.                 *)
(***************************************************************************)
EXTENDS Integers, Sequences, FiniteSets, TLC

\* ---------------------------------------------------------------- bounds
TicksPerFrame == 2      \* clock resolution: ticks per frame
MaxFrames == 37         \* the clock stops after this many frames of a hold
StepFrames == 6         \* SpecAll: the clock is seen to move this many frames at once
MaxQueue == 2           \* commands the channel holds before producers wait
MaxZoneIn == 1000       \* largest frame handed to get_zone on its own

MaxTime == MaxFrames * TicksPerFrame
StepTime == StepFrames * TicksPerFrame

VARIABLES
    now,        \* Instant::now(), in ticks
    hold,       \* HoldState behind its Mutex
    hud,        \* HudControlState behind its Mutex
    state_lock, \* owner of the HoldState mutex
    hud_lock,   \* owner of the HudControlState mutex
    loop_pc,    \* position of the frame loop thread
    lis_pc,     \* position of each listener thread
    cmd_pc,     \* position of the thread running HUD commands
    audio_pc,   \* audio thread: "init", "run" or "dead"
    audio_q,    \* mpsc channel of AudioCmd
    last_event, \* the last input event handed to a listener: <<thread, event>>
    obs,        \* what the HUD window and the channel were sent in this hold
    zin, zout   \* argument and result of a stand-alone get_zone call

vars == <<now, hold, hud, state_lock, hud_lock, loop_pc, lis_pc, cmd_pc,
          audio_pc, audio_q, last_event, obs, zin, zout>>

\* ------------------------------------------------------------ get_zone
Zones == {"None", "Tap", "Small", "Mid", "Large", "Full"}

\* get_zone with the Tap/Small boundary one frame low
get_zone_low_small(frame) ==
    CASE frame >= 36 -> "Full"
      [] frame >= 25 /\ frame <= 35 -> "Large"
      [] frame >= 14 /\ frame <= 24 -> "Mid"
      [] frame >= 7 /\ frame <= 13 -> "Small"
      [] frame >= 1 /\ frame <= 6 -> "Tap"
      [] OTHER -> "None"

get_zone(frame) ==
    CASE frame >= 36 -> "Full"
      [] frame >= 25 /\ frame <= 35 -> "Large"
      [] frame >= 14 /\ frame <= 24 -> "Mid"
      [] frame >= 8 /\ frame <= 13 -> "Small"
      [] frame >= 1 /\ frame <= 7 -> "Tap"
      [] OTHER -> "None"

\* ------------------------------------------------------------ data types
None == <<>>                    \* Option::None
Some(x) == <<x>>                \* Option::Some(x)
Unwrap(o) == o[1]

HoldStateDefault ==
    [holding |-> FALSE, start |-> None, last_frame |-> -1,
     last_zone |-> "None", played_30f |-> FALSE]

HudControlInit == [visible |-> TRUE, muted |-> FALSE]

Beep(freq, ms) == [freq |-> freq, ms |-> ms]

\* (elapsed_ms / FRAME_MS).floor() as i32, the elapsed time being e ticks.
\* An elapsed time is never negative and, up to the horizon, far from the
\* range where the casts to i32 and u32 saturate.
FloorFrame(e) == e \div TicksPerFrame

\* the release frame truncated instead of rounded
RoundFrame_trunc(e) == e \div TicksPerFrame

\* the release frame with half a frame taken off instead of added
RoundFrame_below(e) ==
    IF 2 * e < TicksPerFrame THEN 0
    ELSE (2 * e - TicksPerFrame) \div (2 * TicksPerFrame)

\* (elapsed_ms / (1000.0 / 60.0)).round(): half a frame rounds away from zero
RoundFrame(e) == (2 * e + TicksPerFrame) \div (2 * TicksPerFrame)

\* start.elapsed()
Elapsed(start) == now - start

ObsInit ==
    [began |-> FALSE,   \* a press has been accepted since start-up
     starter |-> "none", \* the listener whose press began this hold
     ender |-> "none",  \* the listener whose release sent the hud-update
     left_30f |-> FALSE, \* played_30f as the press that began this hold found it
     progress |-> -1,   \* frame of the last hud-progress of this hold
     mono |-> TRUE,     \* every hud-progress of this hold exceeded the one before
     updates |-> 0,     \* hud-update events since this hold began
     update |-> -1,     \* frame of the last hud-update of this hold
     seen30 |-> 0,      \* loop passes of this hold that saw a new frame >= 30
     thr_cues |-> 0,    \* 350 Hz commands enqueued in this hold
     read_muted |-> "none"]  \* muted as read in the open critical section

Cap2(n) == IF n >= 2 THEN 2 ELSE n

\* audio_tx.send(cmd).ok(): the command joins the channel unless the receiver
\* is gone, in which case send fails and the error is dropped
Send(cmd) ==
    IF audio_pc = "dead"
    THEN audio_q' = audio_q
    ELSE Len(audio_q) < MaxQueue /\ audio_q' = Append(audio_q, cmd)

\* the match on zone in the frame loop: the command sent for a zone, if any
ZoneCue(zone) ==
    CASE zone = "Tap" -> Some(Beep(220, 40))
      [] zone = "Small" -> Some(Beep(260, 40))
      [] zone = "Mid" -> Some(Beep(300, 40))
      [] zone = "Large" -> Some(Beep(340, 40))
      [] zone = "Full" -> Some(Beep(420, 60))
      [] OTHER -> None

ThresholdCue == Beep(350, 80)
ReleaseCue == Beep(600, 100)

\* ------------------------------------------------------------ the clock
\* Time passes while an Instant is stored, d ticks at a time, up to the
\* horizon h.  A critical section on HoldState reads the clock once, on
\* entry, so time that passes inside one is time that passes after it.  The
\* channel is read by the audio thread alone and no sender looks at what it
\* holds, so when the thread starts and when it takes a command changes
\* nothing for the others: it does both before the clock moves on.
Tick(h, d) ==
    /\ hold.start # None
    /\ state_lock = "free"
    /\ audio_pc # "init"
    /\ audio_q = <<>>
    /\ now + d <= h
    /\ now' = now + d
    /\ UNCHANGED <<hold, hud, state_lock, hud_lock, loop_pc, lis_pc, cmd_pc,
                   audio_pc, audio_q, last_event, obs, zin, zout>>

\* ------------------------------------------------------------ frame loop
\* the guard without its test for a change of frame
NewFrame_any(frame, s) == frame >= 0

\* `frame != s.last_frame && frame >= 0`
NewFrame(frame, s) == frame # s.last_frame /\ frame >= 0

\* `frame_u >= 30 && !s.played_30f`
ThresholdDue(frame, s) == frame >= 30 /\ ~s.played_30f

\* the guard `zone != s.last_zone`
ZoneChanged(zone, s) == zone # s.last_zone

\* the loop sampling HoldState without taking its lock
LoopEnter_unlocked == loop_pc = "top"

\* `let mut s = state.lock().unwrap();` at the top of the loop
LoopEnter == loop_pc = "top" /\ state_lock = "free"

\* One pass of the loop while holding, from state.lock() to the first
\* hud_state.lock() or to the end of the block.  A pass that finds the state
\* idle or the frame unchanged changes nothing and is left out.
LoopSample ==
    /\ LoopEnter
    /\ hold.holding /\ hold.start # None
    /\ LET frame == FloorFrame(Elapsed(Unwrap(hold.start)))
           s1 == [hold EXCEPT !.last_frame = frame]
           zone == get_zone(frame)
       IN  /\ NewFrame(frame, hold)
           /\ hold' = s1
           /\ obs' = [obs EXCEPT !.progress = frame,      \* emit_progress
                                 !.mono = @ /\ frame > obs.progress,
                                 !.seen30 = IF frame >= 30 THEN Cap2(@ + 1) ELSE @]
           /\ loop_pc' = IF ZoneChanged(zone, s1) THEN "zone_check"
                          ELSE IF ThresholdDue(frame, s1) THEN "thr_check"
                          ELSE "top"
           /\ state_lock' = IF loop_pc' = "top" THEN "free" ELSE "loop"
    /\ UNCHANGED <<now, hud, hud_lock, lis_pc, cmd_pc, audio_pc, audio_q,
                   last_event, zin, zout>>

\* the muted branch leaving last_zone as it was
LoopZoneCheck_untracked ==
    /\ loop_pc = "zone_check" /\ hud_lock = "free"
    /\ IF hud.muted
       THEN /\ hold' = hold
            /\ loop_pc' = "top" /\ state_lock' = "free"
            /\ obs' = [obs EXCEPT !.read_muted = "none"]
       ELSE /\ loop_pc' = "zone_send"
            /\ obs' = [obs EXCEPT !.read_muted = "unmuted"]
            /\ UNCHANGED <<hold, state_lock>>
    /\ UNCHANGED <<now, hud, hud_lock, lis_pc, cmd_pc, audio_pc, audio_q,
                   last_event, zin, zout>>

\* `if hud_state.lock().unwrap().muted { s.last_zone = zone; continue; }`
LoopZoneCheck ==
    /\ loop_pc = "zone_check" /\ hud_lock = "free"
    /\ LET zone == get_zone(hold.last_frame)
       IN  IF hud.muted
           THEN /\ hold' = [hold EXCEPT !.last_zone = zone]
                /\ loop_pc' = "top" /\ state_lock' = "free"
                /\ obs' = [obs EXCEPT !.read_muted = "none"]
           ELSE /\ loop_pc' = "zone_send"
                /\ obs' = [obs EXCEPT !.read_muted = "unmuted"]
                /\ UNCHANGED <<hold, state_lock>>
    /\ UNCHANGED <<now, hud, hud_lock, lis_pc, cmd_pc, audio_pc, audio_q,
                   last_event, zin, zout>>

\* the match on zone, `s.last_zone = zone`, then the test for the 30f cue
LoopZoneSend ==
    /\ loop_pc = "zone_send"
    /\ LET frame == hold.last_frame
           zone == get_zone(frame)
           cue == ZoneCue(zone)
           s1 == [hold EXCEPT !.last_zone = zone]
       IN  /\ IF cue = None THEN audio_q' = audio_q ELSE Send(Unwrap(cue))
           /\ hold' = s1
           /\ loop_pc' = IF ThresholdDue(frame, s1) THEN "thr_check" ELSE "top"
           /\ state_lock' = IF loop_pc' = "top" THEN "free" ELSE "loop"
           /\ obs' = [obs EXCEPT !.read_muted =
                                    IF loop_pc' = "top" THEN "none" ELSE @]
    /\ UNCHANGED <<now, hud, hud_lock, lis_pc, cmd_pc, audio_pc,
                   last_event, zin, zout>>

\* the 30f cue sent whatever muted reads
LoopThrCheck_ungated ==
    /\ loop_pc = "thr_check" /\ hud_lock = "free"
    /\ loop_pc' = "thr_send"
    /\ obs' = [obs EXCEPT !.read_muted = IF hud.muted THEN "muted" ELSE "unmuted"]
    /\ UNCHANGED <<hold, state_lock>>
    /\ UNCHANGED <<now, hud, hud_lock, lis_pc, cmd_pc, audio_pc, audio_q,
                   last_event, zin, zout>>

\* `if hud_state.lock().unwrap().muted { s.played_30f = true; continue; }`
LoopThrCheck ==
    /\ loop_pc = "thr_check" /\ hud_lock = "free"
    /\ IF hud.muted
       THEN /\ hold' = [hold EXCEPT !.played_30f = TRUE]
            /\ loop_pc' = "top" /\ state_lock' = "free"
            /\ obs' = [obs EXCEPT !.read_muted = "none"]
       ELSE /\ loop_pc' = "thr_send"
            /\ obs' = [obs EXCEPT !.read_muted = "unmuted"]
            /\ UNCHANGED <<hold, state_lock>>
    /\ UNCHANGED <<now, hud, hud_lock, lis_pc, cmd_pc, audio_pc, audio_q,
                   last_event, zin, zout>>

\* `audio_tx.send(Beep { freq: 350, ms: 80 }); s.played_30f = true;`
LoopThrSend ==
    /\ loop_pc = "thr_send"
    /\ Send(ThresholdCue)
    /\ hold' = [hold EXCEPT !.played_30f = TRUE]
    /\ loop_pc' = "top" /\ state_lock' = "free"
    /\ obs' = [obs EXCEPT !.read_muted = "none",
                          !.thr_cues = IF audio_q' # audio_q THEN Cap2(@ + 1) ELSE @]
    /\ UNCHANGED <<now, hud, hud_lock, lis_pc, cmd_pc, audio_pc,
                   last_event, zin, zout>>

start_frame_loop ==
    LoopSample \/ LoopZoneCheck \/ LoopZoneSend \/ LoopThrCheck \/ LoopThrSend

\* ------------------------------------------------------------ listeners
Listeners == {"kb", "gp"}

\* events rdev hands to the keyboard callback, and gilrs to the gamepad loop
KbEvents == {"KeyPress(Space)", "KeyRelease(Space)",
             "ButtonPress(Left)", "ButtonRelease(Left)"}
GpEvents == {"ButtonPressed(South)", "ButtonReleased(South)",
             "ButtonPressed(East)"}

\* the events of the bound triggers the two listeners match on
KbTriggers == {"KeyPress(Space)", "KeyRelease(Space)"}
GpTriggers == {"ButtonPressed(South)", "ButtonReleased(South)"}

\* a press that leaves played_30f as the last hold left it
press_keep_30f(s, t) ==
    IF ~s.holding
    THEN [s EXCEPT !.holding = TRUE, !.start = Some(t), !.last_frame = -1,
                   !.last_zone = "None"]
    ELSE s

\* a press that restarts the hold although one is active
press_unguarded(s, t) ==
    [s EXCEPT !.holding = TRUE, !.start = Some(t), !.last_frame = -1,
              !.last_zone = "None", !.played_30f = FALSE]

\* `if !s.holding { ... }` of the press arms, at time t
press(s, t) ==
    IF ~s.holding
    THEN [s EXCEPT !.holding = TRUE, !.start = Some(t), !.last_frame = -1,
                   !.last_zone = "None", !.played_30f = FALSE]
    ELSE s

\* a release that leaves last_zone as the hold left it
release_keep_zone(s) ==
    [s EXCEPT !.holding = FALSE, !.start = None, !.last_frame = -1]

\* the tail of the release arms: holding, start, last_frame, last_zone
release(s) ==
    [s EXCEPT !.holding = FALSE, !.start = None, !.last_frame = -1,
              !.last_zone = "None"]

\* The press arm of listener l, a whole critical section.
OnPress(l, e) ==
    /\ lis_pc[l] = "wait" /\ state_lock = "free"
    /\ hold' = press(hold, now)
    /\ obs' = IF hold'.holding /\ ~hold.holding
              THEN [ObsInit EXCEPT !.began = TRUE, !.starter = l,
                                   !.left_30f = hold.played_30f]
              ELSE obs
    /\ last_event' = <<l, e>>
    /\ UNCHANGED <<now, hud, state_lock, hud_lock, loop_pc, lis_pc, cmd_pc,
                   audio_pc, audio_q, zin, zout>>

\* The end of the release arm: the fields are cleared and the guard dropped.
\* No Instant is stored any more, so the clock is re-based.
EndRelease(l) ==
    /\ hold' = release(hold)
    /\ now' = 0
    /\ lis_pc' = [lis_pc EXCEPT ![l] = "wait"]
    /\ state_lock' = "free"

\* a release arm that reports frame 0 when no hold is active
OnRelease_idle_update(l, e) ==
    /\ lis_pc[l] = "wait" /\ state_lock = "free"
    /\ last_event' = <<l, e>>
    /\ IF hold.holding /\ hold.start # None
       THEN /\ obs' = [obs EXCEPT
                          !.updates = Cap2(@ + 1),
                          !.ender = l,
                          !.update = RoundFrame(Elapsed(Unwrap(hold.start)))]
            /\ lis_pc' = [lis_pc EXCEPT ![l] = "rel_check"]
            /\ state_lock' = l
            /\ UNCHANGED <<hold, now>>
       ELSE /\ obs' = [obs EXCEPT !.updates = Cap2(@ + 1), !.ender = l,
                                  !.update = 0]
            /\ UNCHANGED <<hold, now, lis_pc, state_lock>>
    /\ UNCHANGED <<hud, hud_lock, loop_pc, cmd_pc, audio_pc, audio_q, zin, zout>>

\* a release arm that ends only a hold its own listener began
OnRelease_own_source(l, e) ==
    /\ lis_pc[l] = "wait" /\ state_lock = "free"
    /\ last_event' = <<l, e>>
    /\ IF hold.holding /\ hold.start # None /\ obs.starter = l
       THEN /\ obs' = [obs EXCEPT
                          !.updates = Cap2(@ + 1),
                          !.ender = l,
                          !.update = RoundFrame(Elapsed(Unwrap(hold.start)))]
            /\ lis_pc' = [lis_pc EXCEPT ![l] = "rel_check"]
            /\ state_lock' = l
            /\ UNCHANGED <<hold, now>>
       ELSE UNCHANGED <<hold, now, obs, lis_pc, state_lock>>
    /\ UNCHANGED <<hud, hud_lock, loop_pc, cmd_pc, audio_pc, audio_q, zin, zout>>

\* The release arm of listener l up to hud_state.lock(): the frame is
\* computed and emit_update is called.
OnRelease(l, e) ==
    /\ lis_pc[l] = "wait" /\ state_lock = "free"
    /\ last_event' = <<l, e>>
    /\ IF hold.holding
       THEN IF hold.start # None
            THEN /\ obs' = [obs EXCEPT
                               !.updates = Cap2(@ + 1),
                               !.ender = l,
                               !.update = RoundFrame(Elapsed(Unwrap(hold.start)))]
                 /\ lis_pc' = [lis_pc EXCEPT ![l] = "rel_check"]
                 /\ state_lock' = l
                 /\ UNCHANGED <<hold, now>>
            ELSE EndRelease(l) /\ UNCHANGED obs
       ELSE UNCHANGED <<hold, now, obs, lis_pc, state_lock>>
    /\ UNCHANGED <<hud, hud_lock, loop_pc, cmd_pc, audio_pc, audio_q, zin, zout>>

\* `if !hud_state.lock().unwrap().muted`
OnReleaseCheck(l) ==
    /\ lis_pc[l] = "rel_check" /\ hud_lock = "free"
    /\ IF ~hud.muted
       THEN /\ lis_pc' = [lis_pc EXCEPT ![l] = "rel_send"]
            /\ obs' = [obs EXCEPT !.read_muted = "unmuted"]
            /\ UNCHANGED <<hold, now, state_lock>>
       ELSE /\ EndRelease(l)
            /\ obs' = [obs EXCEPT !.read_muted = "none"]
    /\ UNCHANGED <<hud, hud_lock, loop_pc, cmd_pc, audio_pc, audio_q,
                   last_event, zin, zout>>

\* `audio_tx.send(Beep { freq: 600, ms: 100 })` and the end of the arm
OnReleaseSend(l) ==
    /\ lis_pc[l] = "rel_send"
    /\ Send(ReleaseCue)
    /\ EndRelease(l)
    /\ obs' = [obs EXCEPT !.read_muted = "none"]
    /\ UNCHANGED <<hud, hud_lock, loop_pc, cmd_pc, audio_pc, last_event,
                   zin, zout>>

\* the arm `_ => {}`
OnOther(l, e) ==
    /\ lis_pc[l] = "wait"
    /\ last_event' = <<l, e>>
    /\ UNCHANGED <<now, hold, hud, state_lock, hud_lock, loop_pc, lis_pc,
                   cmd_pc, audio_pc, audio_q, obs, zin, zout>>

\* the callback with arms for the left mouse button as well
KeyboardCallback_mouse(e) ==
    CASE e = "KeyPress(Space)" -> OnPress("kb", e)
      [] e = "KeyRelease(Space)" -> OnRelease("kb", e)
      [] e = "ButtonPress(Left)" -> OnPress("kb", e)
      [] e = "ButtonRelease(Left)" -> OnRelease("kb", e)
      [] OTHER -> OnOther("kb", e)

\* the callback of start_keyboard_listener on event e
KeyboardCallback(e) ==
    CASE e = "KeyPress(Space)" -> OnPress("kb", e)
      [] e = "KeyRelease(Space)" -> OnRelease("kb", e)
      [] OTHER -> OnOther("kb", e)

\* the match of start_gamepad_listener on event e
GamepadMatch(e) ==
    CASE e = "ButtonPressed(South)" -> OnPress("gp", e)
      [] e = "ButtonReleased(South)" -> OnRelease("gp", e)
      [] OTHER -> OnOther("gp", e)

start_keyboard_listener(events) ==
    \/ \E e \in events : KeyboardCallback(e)
    \/ OnReleaseCheck("kb")
    \/ OnReleaseSend("kb")

start_gamepad_listener(events) ==
    \/ \E e \in events : GamepadMatch(e)
    \/ OnReleaseCheck("gp")
    \/ OnReleaseSend("gp")

\* ------------------------------------------------------------ HUD commands
\* hud_mute_toggle up to the emit: the guard is taken and muted flipped
MuteToggleFlip ==
    /\ cmd_pc = "idle" /\ hud_lock = "free"
    /\ hud' = [hud EXCEPT !.muted = ~@]
    /\ hud_lock' = "cmd"
    /\ cmd_pc' = "mute_emit"
    /\ UNCHANGED <<now, hold, state_lock, loop_pc, lis_pc, audio_pc, audio_q,
                   last_event, obs, zin, zout>>

\* the command reading HoldState before it drops its guard
MuteToggleEmit_reads_hold ==
    /\ cmd_pc = "mute_emit"
    /\ state_lock = "free"
    /\ hud_lock' = "free"
    /\ cmd_pc' = "idle"
    /\ UNCHANGED <<now, hold, hud, state_lock, loop_pc, lis_pc, audio_pc,
                   audio_q, last_event, obs, zin, zout>>

\* emit_to("main", "hud-mute-changed", s.muted) and the end of the command
MuteToggleEmit ==
    /\ cmd_pc = "mute_emit"
    /\ hud_lock' = "free"
    /\ cmd_pc' = "idle"
    /\ UNCHANGED <<now, hold, hud, state_lock, loop_pc, lis_pc, audio_pc,
                   audio_q, last_event, obs, zin, zout>>

hud_mute_toggle == MuteToggleFlip \/ MuteToggleEmit

\* hud_toggle up to the show/hide: the guard is taken and visible flipped
HudToggleFlip ==
    /\ cmd_pc = "idle" /\ hud_lock = "free"
    /\ hud' = [hud EXCEPT !.visible = ~@]
    /\ hud_lock' = "cmd"
    /\ cmd_pc' = "show_hide"
    /\ UNCHANGED <<now, hold, state_lock, loop_pc, lis_pc, audio_pc, audio_q,
                   last_event, obs, zin, zout>>

\* hud.show() or hud.hide() and the end of the command
HudToggleShow ==
    /\ cmd_pc = "show_hide"
    /\ hud_lock' = "free"
    /\ cmd_pc' = "idle"
    /\ UNCHANGED <<now, hold, hud, state_lock, loop_pc, lis_pc, audio_pc,
                   audio_q, last_event, obs, zin, zout>>

hud_toggle == HudToggleFlip \/ HudToggleShow

\* ------------------------------------------------------------ audio thread
\* OutputStream::try_default().expect(..): the thread goes on, or panics and
\* drops the receiver with whatever the channel holds
AudioInit ==
    /\ audio_pc = "init"
    /\ \E ok \in BOOLEAN :
         IF ok THEN audio_pc' = "run" /\ audio_q' = audio_q
               ELSE audio_pc' = "dead" /\ audio_q' = <<>>
    /\ UNCHANGED <<now, hold, hud, state_lock, hud_lock, loop_pc, lis_pc,
                   cmd_pc, last_event, obs, zin, zout>>

\* `while let Ok(cmd) = rx.recv()`: the oldest command is taken and played
AudioRecv ==
    /\ audio_pc = "run"
    /\ audio_q # <<>>
    /\ audio_q' = Tail(audio_q)
    /\ UNCHANGED <<now, hold, hud, state_lock, hud_lock, loop_pc, lis_pc,
                   cmd_pc, audio_pc, last_event, obs, zin, zout>>

start_audio_thread == AudioInit \/ AudioRecv

\* ------------------------------------------------------------ the system
\* main: the HUD state, HoldState::default(), the channel and the threads
Init ==
    /\ now = 0
    /\ hold = HoldStateDefault
    /\ hud = HudControlInit
    /\ state_lock = "free"
    /\ hud_lock = "free"
    /\ loop_pc = "top"
    /\ lis_pc = [l \in Listeners |-> "wait"]
    /\ cmd_pc = "idle"
    /\ audio_pc = "init"
    /\ audio_q = <<>>
    /\ last_event = <<>>
    /\ obs = ObsInit
    /\ zin = 0
    /\ zout = "unset"

\* Holds of up to MaxFrames frames, driven by the bound triggers, with the
\* mute command.
Next ==
    \/ Tick(MaxTime, 1)
    \/ start_frame_loop
    \/ start_keyboard_listener(KbTriggers)
    \/ start_gamepad_listener(GpTriggers)
    \/ hud_mute_toggle
    \/ start_audio_thread

Spec == Init /\ [][Next]_vars

\* The same holds with the clock moving StepFrames frames at a time, with
\* every input event and both commands.
NextAll ==
    \/ Tick(MaxTime, StepTime)
    \/ start_frame_loop
    \/ start_keyboard_listener(KbEvents)
    \/ start_gamepad_listener(GpEvents)
    \/ hud_mute_toggle
    \/ hud_toggle
    \/ start_audio_thread

SpecAll == Init /\ [][NextAll]_vars

\* Scheduling.  A thread that owns a lock and waits for nothing goes on
\* (the commands after their flip, the senders once the channel has room,
\* the audio thread); a thread blocked in lock() on a mutex that is freed
\* again and again gets it in the end.
Fairness ==
    /\ WF_vars(MuteToggleEmit) /\ WF_vars(HudToggleShow)
    /\ WF_vars(AudioInit) /\ WF_vars(AudioRecv)
    /\ WF_vars(LoopZoneSend) /\ WF_vars(LoopThrSend)
    /\ SF_vars(LoopZoneCheck) /\ SF_vars(LoopThrCheck)
    /\ \A l \in Listeners :
         WF_vars(OnReleaseSend(l)) /\ SF_vars(OnReleaseCheck(l))

\* Holds driven by the bound triggers with the clock moving StepFrames
\* frames at a time and both commands, under the scheduling above.
NextFair ==
    \/ Tick(MaxTime, StepTime)
    \/ start_frame_loop
    \/ start_keyboard_listener(KbTriggers)
    \/ start_gamepad_listener(GpTriggers)
    \/ hud_mute_toggle
    \/ hud_toggle
    \/ start_audio_thread

SpecFair == Init /\ [][NextFair]_vars /\ Fairness

\* get_zone on its own: one call on any frame up to MaxZoneIn.
InitZone ==
    /\ zin \in 0..MaxZoneIn
    /\ zout = "unset"
    /\ now = 0
    /\ hold = HoldStateDefault
    /\ hud = HudControlInit
    /\ state_lock = "free"
    /\ hud_lock = "free"
    /\ loop_pc = "top"
    /\ lis_pc = [l \in Listeners |-> "wait"]
    /\ cmd_pc = "idle"
    /\ audio_pc = "init"
    /\ audio_q = <<>>
    /\ last_event = <<>>
    /\ obs = ObsInit

CallGetZone ==
    /\ zout = "unset"
    /\ zout' = get_zone(zin)
    /\ UNCHANGED <<now, hold, hud, state_lock, hud_lock, loop_pc, lis_pc,
                   cmd_pc, audio_pc, audio_q, last_event, obs, zin>>

SpecZone == InitZone /\ [][CallGetZone]_vars

\* ================================================================ claims

\* a step that hands a press of a bound trigger to its listener
PressDelivered ==
    KeyboardCallback("KeyPress(Space)") \/ GamepadMatch("ButtonPressed(South)")

\* a step that hands a release of a bound trigger to its listener
ReleaseDelivered ==
    KeyboardCallback("KeyRelease(Space)") \/ GamepadMatch("ButtonReleased(South)")

\* a step that puts one more command on the channel
Enqueued == Len(audio_q') > Len(audio_q)

\* a step that sends a hud-progress event
ProgressEmitted == obs'.progress # obs.progress /\ obs'.progress >= 0

\* a step that sends a hud-update event
UpdateEmitted == obs'.updates # obs.updates /\ obs'.updates # 0

\* the whole number of frames nearest to e ticks, a half counting upwards
NearestFrame(e) ==
    CHOOSE n \in 0..(e + 1) :
        /\ 2 * n * TicksPerFrame - TicksPerFrame <= 2 * e
        /\ 2 * e < 2 * n * TicksPerFrame + TicksPerFrame

ZoneBoundaries ==
    { <<0, "None">>, <<1, "Tap">>, <<7, "Tap">>, <<8, "Small">>,
      <<13, "Small">>, <<14, "Mid">>, <<24, "Mid">>, <<25, "Large">>,
      <<35, "Large">>, <<36, "Full">>, <<1000, "Full">> }

\* C1: get_zone returns a zone for every frame >= 0: None for 0, Tap for 1..7,
\* Small for 8..13, Mid for 14..24, Large for 25..35 and Full from 36 on, and
\* the listed boundary frames map to the listed zones.
C1_ZoneClassifier ==
    zout # "unset" =>
        /\ zout \in Zones
        /\ zout = (IF zin = 0 THEN "None"
                   ELSE IF zin \in 1..7 THEN "Tap"
                   ELSE IF zin \in 8..13 THEN "Small"
                   ELSE IF zin \in 14..24 THEN "Mid"
                   ELSE IF zin \in 25..35 THEN "Large"
                   ELSE "Full")
        /\ \A b \in ZoneBoundaries : zin = b[1] => zout = b[2]

C1_Witness == zin = 1000 /\ zout = "Full"

\* C2: a press of a bound trigger handed over while the state is idle leaves
\* it holding with start = now, last_frame = -1, last_zone = None and
\* played_30f = false, whatever the fields held before.
C2_PressFromIdle ==
    [][(PressDelivered /\ ~hold.holding) =>
          hold' = [holding |-> TRUE, start |-> Some(now), last_frame |-> -1,
                   last_zone |-> "None", played_30f |-> FALSE]]_vars

\* a hold just begun by a press that found played_30f left true
C2_Witness ==
    /\ hold.holding /\ hold.start = Some(now)
    /\ obs.left_30f /\ ~hold.played_30f
    /\ hold.last_frame = -1 /\ hold.last_zone = "None"

\* C3: a press handed over while a hold is active changes no field of
\* HoldState, sends no event and enqueues no command.
C3_PressWhileHolding ==
    [][(PressDelivered /\ hold.holding) =>
          (hold' = hold /\ obs' = obs /\ audio_q' = audio_q)]_vars

\* a hold begun by the keyboard, past frame 30, with a gamepad press handed
\* over since
C3_Witness ==
    /\ hold.holding /\ obs.starter = "kb"
    /\ last_event = <<"gp", "ButtonPressed(South)">>
    /\ hold.last_frame >= 30 /\ hold.played_30f /\ hold.last_zone = "Large"

\* C4: a release handed over while the state is idle sends no hud-update,
\* enqueues no command and changes no field of HoldState.
C4_ReleaseWhileIdle ==
    [][(ReleaseDelivered /\ ~hold.holding) =>
          (hold' = hold /\ obs' = obs /\ audio_q' = audio_q)]_vars

\* idle after a hold the keyboard ended, with a gamepad release handed over
\* since
C4_Witness ==
    /\ ~hold.holding /\ obs.ender = "kb" /\ obs.updates = 1
    /\ last_event = <<"gp", "ButtonReleased(South)">>

\* C5: every hold gets exactly one hud-update; it is sent by the step that
\* handles the release and carries the elapsed time in frames rounded to the
\* nearest whole number; nothing else sends a hud-update.
C5_UpdateOncePerHold ==
    /\ []((~hold.holding /\ obs.began) => obs.updates = 1)
    /\ []((hold.holding /\ state_lock \notin Listeners) => obs.updates = 0)
    /\ [][UpdateEmitted =>
            /\ ReleaseDelivered /\ hold.holding
            /\ obs.updates = 0
            /\ obs'.update = NearestFrame(now - Unwrap(hold.start))]_vars

\* the hold of the end-to-end scenario: progress up to 29, then update 30
C5_Witness ==
    ~hold.holding /\ obs.updates = 1 /\ obs.update = 30 /\ obs.progress = 29

\* C6: no hud-progress is sent after the hud-update of a hold and before the
\* next accepted press.
C6_UpdateIsLast ==
    [][ProgressEmitted => (obs.updates = 0 /\ hold.holding)]_vars

\* a release between its hud-update and its end while the frame loop has a
\* frame it has not reported yet
C6_Witness ==
    /\ \E l \in Listeners : lis_pc[l] = "rel_send"
    /\ obs.updates = 1
    /\ FloorFrame(now - Unwrap(hold.start)) > hold.last_frame

\* C7: the frames of the hud-progress events of a hold are strictly
\* increasing and the first is >= 0; no frame is reported twice.
C7_ProgressIncreasing == obs.mono /\ obs.progress >= -1

\* a hold whose progress has reached frame 36
C7_Witness == hold.holding /\ obs.progress = 36 /\ hold.last_frame = 36

\* a step that enqueues the 30f cue
ThresholdEnqueued == Enqueued /\ audio_q'[Len(audio_q')] = ThresholdCue

\* C8: the 30f cue is enqueued at most once in a hold, and only by the first
\* pass of the loop that sees a frame >= 30 in that hold.
C8_ThresholdOnFirst30 ==
    [][ThresholdEnqueued => (obs.thr_cues = 0 /\ obs.seen30 = 1)]_vars

\* C9: a pass of the loop that sees a new frame >= 30 and reads muted = true
\* ends with played_30f = true.
C9_MutedMarksPlayed ==
    [][(loop_pc \in {"zone_check", "thr_check"} /\ loop_pc' = "top"
        /\ hud.muted /\ hold.last_frame >= 30) => hold'.played_30f]_vars

\* C10: no command is enqueued in a state where muted is true.
C10_NoEnqueueWhileMuted == [][Enqueued => ~hud.muted]_vars

\* C10 as amended: a command is enqueued only after the sender read
\* muted = false in the same critical section; muted may have been set since.
C10_EnqueueAfterUnmutedRead == [][Enqueued => obs.read_muted = "unmuted"]_vars

\* the frame loop about to send the 30f cue while muted has been set since
\* it read it
C10_Witness ==
    loop_pc = "thr_send" /\ obs.read_muted = "unmuted" /\ hud.muted

\* the cue of each zone, as the specification tabulates it
CueOfZone ==
    [Tap |-> Beep(220, 40), Small |-> Beep(260, 40), Mid |-> Beep(300, 40),
     Large |-> Beep(340, 40), Full |-> Beep(420, 60)]

\* zones in the order a hold passes through them
ZoneRank ==
    [None |-> 0, Tap |-> 1, Small |-> 2, Mid |-> 3, Large |-> 4, Full |-> 5]

\* a step that enqueues the cue of some zone
ZoneCueEnqueued ==
    /\ Enqueued
    /\ \E z \in DOMAIN CueOfZone : audio_q'[Len(audio_q')] = CueOfZone[z]

\* the step of the frame loop that follows an unmuted read on a changed zone
ZoneSendStep == loop_pc = "zone_send" /\ loop_pc' # "zone_send"

\* C11: a pass of the loop that finds the zone of its new frame different
\* from last_zone and reads muted = false enqueues exactly one zone cue, the
\* one tabulated for the new zone; a zone cue is enqueued by no other step,
\* and last_zone only moves upwards in a hold, so no zone's cue is enqueued
\* twice in a hold.
C11_ZoneCueOnChange ==
    [][/\ ZoneSendStep =>
            \E z \in DOMAIN CueOfZone :
                /\ z = get_zone(hold.last_frame) /\ z # hold.last_zone
                /\ audio_q' = Append(audio_q, CueOfZone[z])
       /\ ZoneCueEnqueued =>
            /\ ZoneSendStep
            /\ ZoneRank[hold'.last_zone] > ZoneRank[hold.last_zone]
       /\ (hold.holding /\ hold'.holding) =>
            ZoneRank[hold'.last_zone] >= ZoneRank[hold.last_zone]]_vars

\* C11 where the audio thread is alive: the same statement, the enqueue
\* being required only of a channel that still has its receiver
C11_ZoneCueOnChangeAlive ==
    [][/\ (ZoneSendStep /\ audio_pc # "dead") =>
            \E z \in DOMAIN CueOfZone :
                /\ z = get_zone(hold.last_frame) /\ z # hold.last_zone
                /\ audio_q' = Append(audio_q, CueOfZone[z])
       /\ ZoneCueEnqueued =>
            /\ ZoneSendStep
            /\ ZoneRank[hold'.last_zone] > ZoneRank[hold.last_zone]
       /\ (hold.holding /\ hold'.holding) =>
            ZoneRank[hold'.last_zone] >= ZoneRank[hold.last_zone]]_vars

\* the commands a producer can send
AudioCmds ==
    {CueOfZone[z] : z \in DOMAIN CueOfZone} \cup {Beep(350, 80), Beep(600, 100)}

\* a step in which the audio worker takes the oldest command of the channel
Dequeued ==
    /\ audio_pc = "run" /\ audio_pc' = "run"
    /\ audio_q # <<>> /\ audio_q' = Tail(audio_q)

\* C12: the channel is first-in first-out: a command joins it at the tail,
\* leaves it only by the audio worker taking it from the head, so every
\* command enqueued is dequeued once and in order of arrival; and a producer
\* about to send is never kept waiting while the channel has room.
C12_QueueFifo ==
    /\ [][\/ audio_q' = audio_q
          \/ \E c \in AudioCmds : audio_q' = Append(audio_q, c)
          \/ Dequeued]_vars
    /\ []((loop_pc = "zone_send" /\ Len(audio_q) < MaxQueue)
             => ENABLED LoopZoneSend)
    /\ []((loop_pc = "thr_send" /\ Len(audio_q) < MaxQueue)
             => ENABLED LoopThrSend)
    /\ [](\A l \in Listeners :
             (lis_pc[l] = "rel_send" /\ Len(audio_q) < MaxQueue)
                => ENABLED OnReleaseSend(l))

\* C12 apart from the loss at a failed start of the audio thread
C12_QueueFifoAlive ==
    /\ [][\/ audio_q' = audio_q
          \/ \E c \in AudioCmds : audio_q' = Append(audio_q, c)
          \/ Dequeued
          \/ (audio_pc = "init" /\ audio_pc' = "dead")]_vars
    /\ []((loop_pc = "zone_send" /\ Len(audio_q) < MaxQueue)
             => ENABLED LoopZoneSend)
    /\ []((loop_pc = "thr_send" /\ Len(audio_q) < MaxQueue)
             => ENABLED LoopThrSend)
    /\ [](\A l \in Listeners :
             (lis_pc[l] = "rel_send" /\ Len(audio_q) < MaxQueue)
                => ENABLED OnReleaseSend(l))

\* a step that hands a listener an event of none of its bound triggers
OtherDelivered ==
    \/ \E e \in KbEvents \ KbTriggers : KeyboardCallback(e)
    \/ \E e \in GpEvents \ GpTriggers : GamepadMatch(e)

\* a step in which a listener leaves its release arm
ReleaseEnded == \E l \in Listeners : lis_pc[l] # "wait" /\ lis_pc'[l] = "wait"

\* a press of a bound trigger starts a hold from idle, a release of one sends
\* the hud-update of an active hold, and the release arm ends with the state
\* idle
TriggerProtocol ==
    /\ (PressDelivered /\ ~hold.holding) =>
          (hold'.holding /\ hold'.start = Some(now) /\ obs'.updates = 0)
    /\ (ReleaseDelivered /\ hold.holding) =>
          (UpdateEmitted /\ state_lock' \in Listeners)
    /\ ReleaseEnded => (~hold'.holding /\ obs'.updates = 1)

\* C13: the space key, the left mouse button and the gamepad south button
\* each drive the press/release protocol; any other input changes nothing.
C13_ThreeTriggers ==
    [][/\ TriggerProtocol
       /\ (KeyboardCallback("ButtonPress(Left)") /\ ~hold.holding) =>
             hold'.holding
       /\ (KeyboardCallback("ButtonRelease(Left)") /\ hold.holding) =>
             UpdateEmitted]_vars

\* C13 as amended: the space key and the gamepad south button each drive the
\* press/release protocol; any other input, the left mouse button included,
\* changes nothing.
C13_TwoTriggers ==
    [][/\ TriggerProtocol
       /\ OtherDelivered =>
             UNCHANGED <<now, hold, hud, state_lock, hud_lock, loop_pc, lis_pc,
                         cmd_pc, audio_pc, audio_q, obs>>]_vars

\* a hold past frame 30 that a release of the left mouse button left active
C13_Witness ==
    /\ last_event = <<"kb", "ButtonRelease(Left)">>
    /\ hold.holding /\ hold.last_frame >= 30 /\ obs.updates = 0

\* C14: once the audio output has failed to initialise nothing runs any
\* more: no press is accepted, no hud-progress and no hud-update is sent.
C14_AudioInitFatal ==
    [][audio_pc = "dead" =>
          /\ ~(PressDelivered /\ hold'.holding /\ ~hold.holding)
          /\ ~ProgressEmitted
          /\ ~UpdateEmitted]_vars

\* C15: holding is true exactly when start is present; while holding is
\* false last_frame is -1 and last_zone is None, and nothing but an accepted
\* press writes HoldState.
C15_IdleShape ==
    /\ [](hold.holding <=> hold.start # None)
    /\ [](~hold.holding => (hold.last_frame = -1 /\ hold.last_zone = "None"))
    /\ [][(~hold.holding /\ hold' # hold) => PressDelivered]_vars

\* idle after a hold that had reached the Full zone and its 30f cue
C15_Witness ==
    /\ ~hold.holding /\ hold.start = None
    /\ obs.updates = 1 /\ obs.progress >= 36 /\ hold.played_30f

\* C16: no hud-progress, no hud-update and no command is sent by a thread
\* that holds the HoldState lock: the lock is free when a sending step
\* begins and free when it ends.
C16_NoIoUnderLock ==
    [][(ProgressEmitted \/ UpdateEmitted \/ Enqueued) =>
          (state_lock = "free" /\ state_lock' = "free")]_vars

\* C17: whenever the HoldState lock is free and a hold is active, last_zone
\* is the zone of the last frame reported: None before any, get_zone of
\* last_frame after, muted or not.
C17_ZoneTracksFrame ==
    (state_lock = "free" /\ hold.holding) =>
        hold.last_zone = (IF hold.last_frame = -1 THEN "None"
                          ELSE get_zone(hold.last_frame))

\* a muted hold that entered the Full zone on a frame the loop reported
\* while muted
C17_Witness ==
    /\ state_lock = "free" /\ hold.holding /\ hud.muted
    /\ hold.last_frame = 36 /\ hold.last_zone = "Full" /\ ~hold.played_30f

\* C18: the two locks are taken in one order.  The HudControlState lock is
\* owned over a step by the commands alone, which ask for nothing else; the
\* loop and the listeners ask for it only inside their HoldState critical
\* section; no owner of it takes HoldState.  So every critical section
\* ends: each lock is free again and again, and whoever waits for it gets it.
C18_NoDeadlock ==
    /\ [](hud_lock \in {"free", "cmd"} /\ (hud_lock = "cmd" <=> cmd_pc # "idle"))
    /\ [](loop_pc # "top" <=> state_lock = "loop")
    /\ [](\A l \in Listeners : lis_pc[l] # "wait" <=> state_lock = l)
    /\ [][(state_lock' # state_lock /\ state_lock' # "free") =>
             (state_lock = "free" /\ state_lock' # hud_lock)]_vars
    /\ []<>(state_lock = "free")
    /\ []<>(hud_lock = "free")

\* the frame loop inside its critical section, waiting for the
\* HudControlState lock that a command owns
C18_Witness ==
    /\ loop_pc = "zone_check" /\ state_lock = "loop"
    /\ hud_lock = "cmd" /\ cmd_pc = "show_hide"

\* a step that hands listener l a press, or a release, of its bound trigger
PressBy(l) ==
    IF l = "kb" THEN KeyboardCallback("KeyPress(Space)")
    ELSE GamepadMatch("ButtonPressed(South)")

ReleaseBy(l) ==
    IF l = "kb" THEN KeyboardCallback("KeyRelease(Space)")
    ELSE GamepadMatch("ButtonReleased(South)")

\* C19: there is one hold at a time whatever the source: a hold begins only
\* from idle; while the hold of one listener is active a press from the
\* other changes nothing, and a release from the other sends the hud-update
\* of that hold and ends it.
C19_OneHoldAnySource ==
    [][/\ obs'.starter # obs.starter => (~hold.holding /\ hold'.holding)
       /\ \A l \in Listeners :
            /\ (PressBy(l) /\ hold.holding /\ obs.starter # l) =>
                  (hold' = hold /\ obs' = obs)
            /\ (ReleaseBy(l) /\ hold.holding /\ obs.starter # l) =>
                  /\ UpdateEmitted /\ obs'.ender = l
                  /\ obs'.starter = obs.starter
                  /\ lis_pc'[l] = "rel_check" /\ state_lock' = l
            /\ (lis_pc[l] # "wait" /\ lis_pc'[l] = "wait") =>
                  (~hold'.holding /\ state_lock' = "free")]_vars

\* idle after a hold of 30 frames or more that the keyboard began and the
\* gamepad ended
C19_Witness ==
    /\ ~hold.holding /\ obs.starter = "kb" /\ obs.ender = "gp"
    /\ obs.updates = 1 /\ obs.update >= 30

\* the number of whole frames in e ticks
WholeFrames(e) ==
    CHOOSE n \in 0..e : n * TicksPerFrame <= e /\ e < (n + 1) * TicksPerFrame

\* C20: the frame of the hud-update of a hold is at least the frame of every
\* hud-progress of that hold, and it is the number of whole frames elapsed
\* at the release or that number plus one.
C20_UpdateBounds ==
    /\ obs.updates = 1 => obs.update >= obs.progress
    /\ (\E l \in Listeners : lis_pc[l] # "wait") =>
          /\ obs.updates = 1
          /\ obs.update \in {WholeFrames(now - Unwrap(hold.start)),
                             WholeFrames(now - Unwrap(hold.start)) + 1}

\* a release 29 frames and a half after the press: progress up to 29, the
\* update rounded up to 30
C20_Witness ==
    /\ \E l \in Listeners : lis_pc[l] = "rel_send"
    /\ obs.progress = 29 /\ obs.update = 30
    /\ WholeFrames(now - Unwrap(hold.start)) = 29
====
